---- MODULE Spec2Model ----
(***************************************************************************)
(* SmartSoil: the Live page (active crop, current reading, threshold       *)
(* catalog, realtime channel, chart series) and the Analytics page         *)
(* (historical rows per crop and window), as state machines over React     *)
(* state, the effects keyed on that state, and the asynchronous loads and  *)
(* push events those effects leave in flight.                              *)
(*                                                                         *)
(* One generation g of the [crop] effects of Live is one run of the four   *)
(* effects keyed on [crop]: snapLoad[g], thrLoad[g], chartLoad[g] and      *)
(* channel[g] are what that run created.  A state update that changes      *)
(* crop re-renders, runs the cleanups of the previous generation and then  *)
(* the effects of the new one; the model takes that as one step.           *)
(***************************************************************************)
EXTENDS Integers, Sequences, FiniteSets, TLC

\* ---------------------------------------------------------------- bounds
\* calls of handleCropChange in one behaviour
MaxCalls == 1
\* rows written to telem_rt by the ingest side after the page is mounted
MaxTelem == 1
\* runs of the [crop, win] effect of Analytics in one behaviour, the mount included
MaxHist == 3
\* calls of handleCropChange in one behaviour of the persistence of the selection
MaxWrites == 2
\* runs of the loadRows effect of DatabaseTable in one behaviour, the mount included
MaxTableLoads == 2
\* buckets of the window the summaries are computed over
MaxBuckets == 3
\* significant bits of a Number in the summaries (53 in a binary64)
MantBits == 4

\* ------------------------------------------------------------ data types
\* the options of the crop <select> of Live and of Analytics
Crops == {"pechay", "lemongrass", "okra"}

\* export type Crop = 'pechay' | 'tanglad' | 'okra'
CropType == {"pechay", "tanglad", "okra"}

\* the absent row: data === null of maybeSingle(), telem === null, dev === null
null == [crop |-> "null", upd_at |-> 0]

\* the absent device row: devData === null, dev === null
noDev == [id |-> "null", cur_crop |-> "null"]

\* device rows the store may answer the device query with; cur_crop may be null
DevRows == {[id |-> "d1", cur_crop |-> c] : c \in Crops \cup {"null"}}

\* the crop_thr table; okra has no rule configured; descr is <<>> when null
CropThrTable ==
  { [crop |-> "pechay",     param |-> "moist_pct", val_min |-> 40, val_max |-> 70,
     unit |-> "%", descr |-> <<"Keep the soil evenly moist.">>],
    [crop |-> "pechay",     param |-> "temp_c",    val_min |-> 18, val_max |-> 30,
     unit |-> "C", descr |-> <<>>],
    [crop |-> "lemongrass", param |-> "moist_pct", val_min |-> 30, val_max |-> 60,
     unit |-> "%", descr |-> <<"Water deeply, not often.">>] }

\* the sens_rdg_30m table, ascending by bkt_30m (hours on the model's clock,
\* which reads 1000 at Date.now())
\* a numeric column is <<>> when null and <<v>> when it holds v
HistRow(b, c, m, t) ==
  [bkt_30m |-> b, crop |-> c, ph |-> <<>>, moist_pct |-> m, temp_c |-> t,
   ec_ms |-> <<>>, n_mgkg |-> <<>>, p_mgkg |-> <<>>, k_mgkg |-> <<>>]

Sens30mTable ==
  << HistRow(400, "pechay",     <<10>>, <<>>),
     HistRow(450, "okra",       <<20>>, <<>>),
     HistRow(880, "lemongrass", <<30>>, <<>>),
     HistRow(900, "pechay",     <<40>>, <<>>),
     HistRow(985, "okra",       <<48>>, <<>>),
     HistRow(990, "pechay",     <<60>>, <<>>),
     HistRow(995, "lemongrass", <<72>>, <<>>) >>

\* telem_rt when the page is mounted: pechay and okra have a row, lemongrass none
TelemRt0 ==
  << [event |-> "INSERT", new |-> [crop |-> "pechay", upd_at |-> 1]],
     [event |-> "INSERT", new |-> [crop |-> "okra",   upd_at |-> 2]] >>

VARIABLES
  \* ---- Live: React state
  mounted,     \* the component is mounted
  dev,         \* useState<Dev | null>
  crop,        \* useState<Crop>
  telem,       \* useState<TelemRow | null>
  loading,     \* useState(true)
  thrMap,      \* useState<Record<string, ThrRow>>
  chartData,   \* useState<any[]>
  \* ---- Live: work in flight
  devLoad,     \* the device query of the mount effect: "pending" | "done"
  devWrite,    \* the device.cur_crop updates issued by handleCropChange
  snapLoad,    \* per generation: the telem_rt query
  thrLoad,     \* per generation: the crop_thr query
  chartLoad,   \* per generation: the sens_rdg_30m query of fetchChartData
  channel,     \* per generation: the realtime channel and its handlers' closure
  \* ---- the store
  telemRt,     \* the log of INSERT/UPDATE events of table telem_rt
  device,      \* the row of table device, or noDev
  \* ---- Live: the calls made so far
  calls,       \* log of the arguments of handleCropChange
  \* ---- Analytics: React state and work in flight
  aCrop,       \* useState<Crop>
  win,         \* useState<TimeWin>
  rows,        \* useState<HistRow[]>
  aLoading,    \* useState(false)
  histLoad,    \* per run of the [crop, win] effect: the sens_rdg_30m query
  \* ---- Live: the recommendation helpers
  altCropRecommendations,  \* useState<any[]>([])
  cropReco,    \* what buildCropReco() returned to the last render, "" before it
  altReco,     \* what buildAltReco() returned to the last render, "" before it
  \* ---- Analytics: the memoised summaries
  stats,       \* useMemo over [rows]: what the last render holds
  graphData,   \* useMemo over [stats]: what the last render holds
  \* ---- DatabaseTable: React state and work in flight
  dbRows,      \* useState<SensRow[]>([])  (rows)
  dbLoading,   \* useState<boolean>(false)  (loading)
  total,       \* useState<number | null>(null): <<>> or <<n>>
  search,      \* useState<string>("")
  timeFilter,  \* useState("24h")
  rowLimit,    \* useState<number | "all">("all"): <<>> for "all", <<n>> for n
  sortBy,      \* useState({ col: "bkt_30m", asc: false })
  tableLoad,   \* per run of the loadRows effect: its query and cancelled flag
  toggles      \* log of the arguments of toggleSort

liveVars == <<mounted, dev, crop, telem, loading, thrMap, chartData, devLoad,
              devWrite, snapLoad, thrLoad, chartLoad, channel, telemRt,
              device, calls>>
analyticsVars == <<aCrop, win, rows, aLoading, histLoad>>
adviceVars == <<altCropRecommendations, cropReco, altReco>>
memoVars == <<stats, graphData>>
tableVars == <<dbRows, dbLoading, total, search, timeFilter, rowLimit, sortBy,
               tableLoad, toggles>>
vars == <<liveVars, analyticsVars, adviceVars, memoVars, tableVars>>

\* ------------------------------------------------------------ helpers
Last(s) == s[Len(s)]

Min2(a, b) == IF a < b THEN a ELSE b

\* the generation whose effects are the live ones
Gen == Len(channel)

\* telem_rt as a table after the first k events: the row of crop c, or null
TelemRtRow(c, k) ==
  LET idx == {i \in 1..k : telemRt[i].new.crop = c}
  IN IF idx = {} THEN null
     ELSE telemRt[CHOOSE i \in idx : \A j \in idx : j <= i].new

\* .from('crop_thr').select(...).eq('crop', c)
CropThrRows(c) == {r \in CropThrTable : r.crop = c}

\* the keys of TIME_OPTS
TimeWins == {"24h", "7d", "30d"}

\* ------------------------------------------------- Live: the [crop] effects
\* the dependency array [crop]: React re-runs the effects when the value changed
EffectsRerun_Always(old, new) == TRUE

EffectsRerun(old, new) == old # new

\* return () => { cancelled = true; }  of the telem_rt effect
SnapCleanup(l) == [l EXCEPT !.cancelled = TRUE]

\* return () => { cancelled = true; }  of the crop_thr effect
ThrCleanup(l) == [l EXCEPT !.cancelled = TRUE]

\* return () => { sb.removeChannel(channel); }: the channel leaves; the events
\* the store had sent by then are still on their way to its handlers
ChannelCleanup_Forgotten(ch) == ch

ChannelCleanup(ch) ==
  [ch EXCEPT !.state = "removed", !.removes = @ + 1, !.upto = Len(telemRt)]

\* the body of the telem_rt effect: the query is issued for the crop of this render
SnapIssue(c) == [crop |-> c, cancelled |-> FALSE, st |-> "pending", at |-> Len(telemRt)]

\* the body of the crop_thr effect
ThrIssue(c) == [crop |-> c, cancelled |-> FALSE, st |-> "pending"]

\* fetchChartData(): no cancelled flag, no cleanup
ChartIssue(c) == [crop |-> c, st |-> "pending"]

\* sb.channel('telem_rt_stream').on(INSERT, ..).on(UPDATE, ..).subscribe();
\* both handlers close over the crop of this render
ChannelOpen(c) ==
  [crop |-> c, state |-> "open", removes |-> 0, seen |-> Len(telemRt), upto |-> 0]

\* a render with a new value of crop: cleanups of generation Gen, then the effects
RunCropEffects(c) ==
  /\ snapLoad' = Append([snapLoad EXCEPT ![Gen] = SnapCleanup(@)], SnapIssue(c))
  /\ thrLoad' = Append([thrLoad EXCEPT ![Gen] = ThrCleanup(@)], ThrIssue(c))
  /\ chartLoad' = Append(chartLoad, ChartIssue(c))
  /\ channel' = Append([channel EXCEPT ![Gen] = ChannelCleanup(@)], ChannelOpen(c))

\* setCrop(c) and the render it causes
SetCrop(c) ==
  /\ crop' = c
  /\ IF EffectsRerun(crop, c)
       THEN RunCropEffects(c)
       ELSE UNCHANGED <<snapLoad, thrLoad, chartLoad, channel>>

\* ---------------------------------------------- Live: the device load effect
DevLoadError ==
  /\ devLoad = "pending"
  /\ devLoad' = "done"
  /\ loading' = (IF mounted THEN FALSE ELSE loading)
  /\ UNCHANGED <<mounted, dev, crop, telem, thrMap, chartData, devWrite, snapLoad,
                 thrLoad, chartLoad, channel, telemRt, device, calls>>
  /\ UNCHANGED <<analyticsVars, adviceVars, memoVars, tableVars>>

DevLoadOk ==
  /\ devLoad = "pending"
  /\ devLoad' = "done"
  /\ IF ~mounted
       THEN UNCHANGED <<dev, crop, loading, snapLoad, thrLoad, chartLoad, channel>>
       ELSE /\ loading' = FALSE
            /\ dev' = device
            /\ IF device # noDev /\ device.cur_crop # "null"
                 THEN SetCrop(device.cur_crop)
                 ELSE UNCHANGED <<crop, snapLoad, thrLoad, chartLoad, channel>>
  /\ UNCHANGED <<mounted, telem, thrMap, chartData, devWrite, telemRt, device, calls>>
  /\ UNCHANGED <<analyticsVars, adviceVars, memoVars, tableVars>>

\* ------------------------------------------------- Live: handleCropChange
\* setCrop(newCrop) comes first, before the test of dev
CropAfterChange_DevFirst(newCrop) == IF dev = noDev THEN crop ELSE newCrop

CropAfterChange(newCrop) == newCrop

\* <select ... disabled={loading}>
SelectEnabled_Always == TRUE

SelectEnabled == ~loading

\* handleCropChange(newCrop), at most n calls in one behaviour
HandleCropChangeUpTo(newCrop, n) ==
  /\ mounted /\ SelectEnabled
  /\ Len(calls) < n
  /\ calls' = Append(calls, newCrop)
  /\ SetCrop(CropAfterChange(newCrop))
  /\ devWrite' = IF dev = noDev THEN devWrite
                 ELSE Append(devWrite, [cur_crop |-> newCrop, st |-> "pending"])
  /\ UNCHANGED <<mounted, dev, telem, loading, thrMap, chartData, devLoad,
                 telemRt, device>>
  /\ UNCHANGED <<analyticsVars, adviceVars, memoVars, tableVars>>

HandleCropChange(newCrop) == HandleCropChangeUpTo(newCrop, MaxCalls)

\* the update of device.cur_crop answers: applied by the store
DevWriteOk(i) ==
  /\ devWrite[i].st = "pending"
  /\ devWrite' = [devWrite EXCEPT ![i].st = "ok"]
  /\ device' = [device EXCEPT !.cur_crop = devWrite[i].cur_crop]
  /\ UNCHANGED <<mounted, dev, crop, telem, loading, thrMap, chartData, devLoad,
                 snapLoad, thrLoad, chartLoad, channel, telemRt, calls>>
  /\ UNCHANGED <<analyticsVars, adviceVars, memoVars, tableVars>>

\* the update fails: console.error, nothing else
DevWriteError(i) ==
  /\ devWrite[i].st = "pending"
  /\ devWrite' = [devWrite EXCEPT ![i].st = "error"]
  /\ UNCHANGED <<mounted, dev, crop, telem, loading, thrMap, chartData, devLoad,
                 snapLoad, thrLoad, chartLoad, channel, telemRt, device, calls>>
  /\ UNCHANGED <<analyticsVars, adviceVars, memoVars, tableVars>>

\* -------------------------------------------- Live: the telem_rt snapshot load
\* if (!cancelled) setTelem(data)
SnapApplies_NoFlag(l) == TRUE

SnapApplies(l) == ~l.cancelled

\* the query fails: console.error and return
SnapLoadError(g) ==
  /\ snapLoad[g].st = "pending"
  /\ snapLoad' = [snapLoad EXCEPT ![g].st = "error"]
  /\ UNCHANGED <<mounted, dev, crop, telem, loading, thrMap, chartData, devLoad,
                 devWrite, thrLoad, chartLoad, channel, telemRt, device, calls>>
  /\ UNCHANGED <<analyticsVars, adviceVars, memoVars, tableVars>>

\* the query answers with the table as it was after k events, k no earlier than
\* the issue of the query
SnapLoadOk(g, k) ==
  /\ snapLoad[g].st = "pending"
  /\ k >= snapLoad[g].at
  /\ snapLoad' = [snapLoad EXCEPT ![g].st =
                    IF SnapApplies(snapLoad[g]) THEN "applied" ELSE "discarded"]
  /\ telem' = IF SnapApplies(snapLoad[g])
                THEN TelemRtRow(snapLoad[g].crop, k)
                ELSE telem
  /\ UNCHANGED <<mounted, dev, crop, loading, thrMap, chartData, devLoad,
                 devWrite, thrLoad, chartLoad, channel, telemRt, device, calls>>
  /\ UNCHANGED <<analyticsVars, adviceVars, memoVars, tableVars>>

\* ------------------------------------------- Live: the realtime subscription
\* if (row.crop === crop): crop is the one the handler closed over
HandlerAccepts_NoFilter(row, c) == TRUE

HandlerAccepts(row, c) == row.crop = c

\* the events a channel can still be handed
Deliverable(ch) ==
  ch.seen < (IF ch.state = "open" THEN Len(telemRt) ELSE ch.upto)

\* what either handler does with payload.new
Handle(g) ==
  LET ch == channel[g]
      row == telemRt[ch.seen + 1].new
  IN /\ channel' = [channel EXCEPT ![g].seen = @ + 1]
     /\ telem' = IF mounted /\ HandlerAccepts(row, ch.crop) THEN row ELSE telem
     /\ UNCHANGED <<mounted, dev, crop, loading, thrMap, chartData, devLoad,
                    devWrite, snapLoad, thrLoad, chartLoad, telemRt, device, calls>>

OnInsert(g) ==
  /\ Deliverable(channel[g])
  /\ telemRt[channel[g].seen + 1].event = "INSERT"
  /\ Handle(g)
  /\ UNCHANGED <<analyticsVars, adviceVars, memoVars, tableVars>>

OnUpdate(g) ==
  /\ Deliverable(channel[g])
  /\ telemRt[channel[g].seen + 1].event = "UPDATE"
  /\ Handle(g)
  /\ UNCHANGED <<analyticsVars, adviceVars, memoVars, tableVars>>

\* ---------------------------------------------- Live: the crop_thr load
\* the forEach that builds map[row.param]
BuildThrMap(data) ==
  [p \in {r.param : r \in data} |-> CHOOSE r \in data : r.param = p]

\* if (error) { console.error(..); return; }
ThrMapOnError_Clear(l) == BuildThrMap({})

ThrMapOnError(l) == thrMap

\* if (!cancelled && data) { ...; setThrMap(map); }
ThrMapOnData_NoFlag(l, data) == BuildThrMap(data)

ThrMapOnData(l, data) == IF ~l.cancelled THEN BuildThrMap(data) ELSE thrMap

ThrLoadError(g) ==
  /\ thrLoad[g].st = "pending"
  /\ thrLoad' = [thrLoad EXCEPT ![g].st = "error"]
  /\ thrMap' = ThrMapOnError(thrLoad[g])
  /\ UNCHANGED <<mounted, dev, crop, telem, loading, chartData, devLoad, devWrite,
                 snapLoad, chartLoad, channel, telemRt, device, calls>>
  /\ UNCHANGED <<analyticsVars, adviceVars, memoVars, tableVars>>

ThrLoadOk(g) ==
  /\ thrLoad[g].st = "pending"
  /\ thrLoad' = [thrLoad EXCEPT ![g].st =
                   IF thrLoad[g].cancelled THEN "discarded" ELSE "applied"]
  /\ thrMap' = ThrMapOnData(thrLoad[g], CropThrRows(thrLoad[g].crop))
  /\ UNCHANGED <<mounted, dev, crop, telem, loading, chartData, devLoad, devWrite,
                 snapLoad, chartLoad, channel, telemRt, device, calls>>
  /\ UNCHANGED <<analyticsVars, adviceVars, memoVars, tableVars>>

\* ---------------------------------------------- Live: fetchChartData
\* .eq('crop', c).order('bkt_30m', { ascending: true }).limit(24)
ChartRows(c) ==
  LET all == SelectSeq(Sens30mTable, LAMBDA r : r.crop = c)
  IN SubSeq(all, 1, Min2(24, Len(all)))

\* (data as any[]).map((r) => ({ t: ..., moist_pct: r.moist_pct, ... }))
ChartPoints(data) ==
  [i \in 1..Len(data) |-> [t |-> data[i].bkt_30m, moist_pct |-> data[i].moist_pct]]

ChartLoadError(g) ==
  /\ chartLoad[g].st = "pending"
  /\ chartLoad' = [chartLoad EXCEPT ![g].st = "error"]
  /\ UNCHANGED <<mounted, dev, crop, telem, loading, thrMap, chartData, devLoad,
                 devWrite, snapLoad, thrLoad, channel, telemRt, device, calls>>
  /\ UNCHANGED <<analyticsVars, adviceVars, memoVars, tableVars>>

ChartLoadOk(g) ==
  /\ chartLoad[g].st = "pending"
  /\ chartLoad' = [chartLoad EXCEPT ![g].st = "applied"]
  /\ chartData' = IF mounted THEN ChartPoints(ChartRows(chartLoad[g].crop))
                  ELSE chartData
  /\ UNCHANGED <<mounted, dev, crop, telem, loading, thrMap, devLoad, devWrite,
                 snapLoad, thrLoad, channel, telemRt, device, calls>>
  /\ UNCHANGED <<analyticsVars, adviceVars, memoVars, tableVars>>

\* ---------------------------------------------- Live: unmount
Unmount ==
  /\ mounted
  /\ mounted' = FALSE
  /\ snapLoad' = [snapLoad EXCEPT ![Gen] = SnapCleanup(@)]
  /\ thrLoad' = [thrLoad EXCEPT ![Gen] = ThrCleanup(@)]
  /\ channel' = [channel EXCEPT ![Gen] = ChannelCleanup(@)]
  /\ UNCHANGED <<dev, crop, telem, loading, thrMap, chartData, devLoad, devWrite,
                 chartLoad, telemRt, device, calls>>
  /\ UNCHANGED <<analyticsVars, adviceVars, memoVars, tableVars>>

\* ---------------------------------------------- the ingest side of telem_rt
\* one row per crop: the first write of a crop is an INSERT, the next an UPDATE
TelemWrite(c) ==
  /\ Len(telemRt) < Len(TelemRt0) + MaxTelem
  /\ telemRt' = Append(telemRt,
       [event |-> IF TelemRtRow(c, Len(telemRt)) = null THEN "INSERT" ELSE "UPDATE",
        new |-> [crop |-> c, upd_at |-> Len(telemRt) + 1]])
  /\ UNCHANGED <<mounted, dev, crop, telem, loading, thrMap, chartData, devLoad,
                 devWrite, snapLoad, thrLoad, chartLoad, channel, device, calls>>
  /\ UNCHANGED <<analyticsVars, adviceVars, memoVars, tableVars>>

\* ---------------------------------------------- Analytics
\* TIME_OPTS[..].hours
Hours(w) == IF w = "24h" THEN 24 ELSE IF w = "7d" THEN 24 * 7 ELSE 24 * 30

\* .eq('crop', c).gte('bkt_30m', from).order('bkt_30m', { ascending: true })
HistRows(c, w) ==
  SelectSeq(Sens30mTable, LAMBDA r : r.crop = c /\ r.bkt_30m >= 1000 - Hours(w))

\* the body of the [crop, win] effect up to the await
HistIssue(c, w) ==
  /\ aLoading' = TRUE
  /\ histLoad' = Append(histLoad, [crop |-> c, win |-> w, st |-> "pending"])

ASetCrop(c) ==
  /\ c # aCrop
  /\ Len(histLoad) < MaxHist
  /\ aCrop' = c
  /\ HistIssue(c, win)
  /\ UNCHANGED <<win, rows, liveVars, adviceVars, memoVars, tableVars>>

ASetWin(w) ==
  /\ w # win
  /\ Len(histLoad) < MaxHist
  /\ win' = w
  /\ HistIssue(aCrop, w)
  /\ UNCHANGED <<aCrop, rows, liveVars, adviceVars, memoVars, tableVars>>

\* if (error) { console.error(..); setRows([]); }  then setLoading(false)
HistLoadError(i) ==
  /\ histLoad[i].st = "pending"
  /\ histLoad' = [histLoad EXCEPT ![i].st = "error"]
  /\ rows' = <<>>
  /\ aLoading' = FALSE
  /\ UNCHANGED <<aCrop, win, liveVars, adviceVars, memoVars, tableVars>>

\* else setRows(data.map(..))  then setLoading(false)
HistLoadOk(i) ==
  /\ histLoad[i].st = "pending"
  /\ histLoad' = [histLoad EXCEPT ![i].st = "applied"]
  /\ rows' = HistRows(histLoad[i].crop, histLoad[i].win)
  /\ aLoading' = FALSE
  /\ UNCHANGED <<aCrop, win, liveVars, adviceVars, memoVars, tableVars>>

\* ---------------------------------------------- Analytics: the summaries
SUM_PARAMS ==
  << [key |-> "moist_pct", label |-> "Moisture", unit |-> "%"],
     [key |-> "temp_c",    label |-> "Temp",     unit |-> "C"],
     [key |-> "ec_ms",     label |-> "EC",       unit |-> "mS/cm"],
     [key |-> "ph",        label |-> "pH",       unit |-> ""],
     [key |-> "n_mgkg",    label |-> "N",        unit |-> "mg/kg"],
     [key |-> "p_mgkg",    label |-> "P",        unit |-> "mg/kg"],
     [key |-> "k_mgkg",    label |-> "K",        unit |-> "mg/kg"] >>

\* rows.map((r) => r[p.key]).filter((v) => v !== null && !Number.isNaN(v))
Vals(p, rs) ==
  LET col == [k \in 1..Len(rs) |-> rs[k][p.key]]
      kept == SelectSeq(col, LAMBDA v : v # <<>>)
  IN [k \in 1..Len(kept) |-> kept[k][1]]

\* Math.min(...vals), Math.max(...vals)
MathMin(vals) == CHOOSE v \in {vals[k] : k \in DOMAIN vals} : \A k \in DOMAIN vals : v <= vals[k]

MathMax(vals) == CHOOSE v \in {vals[k] : k \in DOMAIN vals} : \A k \in DOMAIN vals : v >= vals[k]

\* A Number is a binary floating-point value: a result is rounded to the
\* nearest value with MantBits significant bits, a tie to the even significand.
\* Every value the summaries are computed over is an integer of at least
\* 2^(MantBits - 1), so that the spacing of the representable values around it
\* is an integer too.
BitLength(x) == CHOOSE b \in 0..30 : x < 2^b /\ (b = 0 \/ 2^(b - 1) <= x)

\* the spacing of the representable values around x
Ulp(x) == IF BitLength(x) <= MantBits THEN 1 ELSE 2^(BitLength(x) - MantBits)

\* num / den rounded to an integer, a tie to the even one
RoundHalfEven(num, den) ==
  LET q == num \div den
      r == num % den
  IN IF 2 * r < den THEN q
     ELSE IF 2 * r > den THEN q + 1
     ELSE IF q % 2 = 0 THEN q ELSE q + 1

\* the Number nearest to num / den
Fl(num, den) ==
  LET u == Ulp(num \div den)
  IN RoundHalfEven(num, den * u) * u

\* vals.reduce((acc, v) => acc + v, 0): each acc + v is rounded
RECURSIVE Reduce(_, _)
Reduce(acc, vals) ==
  IF vals = <<>> THEN acc ELSE Reduce(Fl(acc + Head(vals), 1), Tail(vals))

SumOf(vals) == Reduce(0, vals)

\* sum / vals.length
Avg_OverRows(vals, rs) == Fl(SumOf(vals), Len(rs))

Avg(vals, rs) == Fl(SumOf(vals), Len(vals))

\* lastRaw = rows[rows.length - 1][p.key]; typeof lastRaw === 'number' ? lastRaw : null
LastOf_NonNull(p, vals, rs) == <<vals[Len(vals)]>>

LastOf(p, vals, rs) == rs[Len(rs)][p.key]

\* the callback of SUM_PARAMS.map
StatOf(p, rs) ==
  LET vals == Vals(p, rs)
  IN IF Len(vals) = 0
       THEN [key |-> p.key, label |-> p.label, unit |-> p.unit,
             min |-> <<>>, max |-> <<>>, avg |-> <<>>, last |-> <<>>]
       ELSE [key |-> p.key, label |-> p.label, unit |-> p.unit,
             min |-> <<MathMin(vals)>>, max |-> <<MathMax(vals)>>,
             avg |-> <<Avg(vals, rs)>>, last |-> LastOf(p, vals, rs)]

\* the stats memo: if (!rows.length) return []
Stats(rs) ==
  IF Len(rs) = 0 THEN <<>>
  ELSE [i \in DOMAIN SUM_PARAMS |-> StatOf(SUM_PARAMS[i], rs)]

\* the graphData memo: s.min ?? 0, s.max ?? 0, s.avg ?? 0
GraphData(st) ==
  [i \in DOMAIN st |->
     [label |-> st[i].label,
      min |-> IF st[i].min = <<>> THEN 0 ELSE st[i].min[1],
      max |-> IF st[i].max = <<>> THEN 0 ELSE st[i].max[1],
      avg |-> IF st[i].avg = <<>> THEN 0 ELSE st[i].avg[1]]]

\* a render of Analytics: the memos are recomputed from rows
AnalyticsRender ==
  /\ stats' = Stats(rows)
  /\ graphData' = GraphData(Stats(rows))
  /\ UNCHANGED <<liveVars, analyticsVars, adviceVars, tableVars>>

\* windows of up to MaxBuckets buckets, ascending by bkt_30m, moisture and
\* temperature null or a representable value
HistWindows ==
  UNION { { [k \in 1..n |-> HistRow(990 + k, "pechay", f[k][1], f[k][2])] :
              f \in [1..n -> {<<>>, <<20>>, <<24>>, <<28>>} \X {<<>>, <<26>>}] } :
          n \in 0..MaxBuckets }

\* ---------------------------------------------- Live: recommendation helpers
\* A numeric column of a row is <<>> when null and <<v>> when it holds v; the
\* degree sign, the bullet and the dash of the source texts are written C, * and -.
\* PARAMS in the order of the source; unit is "" where the source gives none
PARAMS_TempFirst ==
  << [key |-> "temp_c",    label |-> "Temperature", unit |-> "C"],
     [key |-> "moist_pct", label |-> "Moisture",    unit |-> "%"],
     [key |-> "ec_ms",     label |-> "EC",          unit |-> "mS/cm"],
     [key |-> "ph",        label |-> "pH",          unit |-> ""],
     [key |-> "n_mgkg",    label |-> "Nitrogen",    unit |-> "mg/kg"],
     [key |-> "p_mgkg",    label |-> "Phosphorus",  unit |-> "mg/kg"],
     [key |-> "k_mgkg",    label |-> "Potassium",   unit |-> "mg/kg"] >>

PARAMS ==
  << [key |-> "moist_pct", label |-> "Moisture",    unit |-> "%"],
     [key |-> "temp_c",    label |-> "Temperature", unit |-> "C"],
     [key |-> "ec_ms",     label |-> "EC",          unit |-> "mS/cm"],
     [key |-> "ph",        label |-> "pH",          unit |-> ""],
     [key |-> "n_mgkg",    label |-> "Nitrogen",    unit |-> "mg/kg"],
     [key |-> "p_mgkg",    label |-> "Phosphorus",  unit |-> "mg/kg"],
     [key |-> "k_mgkg",    label |-> "Potassium",   unit |-> "mg/kg"] >>

\* issues.join('\n'), recommendedCrops.join(', ')
RECURSIVE Join(_, _)
Join(ss, sep) ==
  IF ss = <<>> THEN ""
  ELSE IF Len(ss) = 1 THEN ss[1]
  ELSE ss[1] \o sep \o Join(Tail(ss), sep)

CropWaiting ==
  "Waiting for real-time sensor data. Once readings are available, this area will highlight which parameters are below or above the optimal range for the selected crop."

CropWell == "* The selected crop is doing well. Maintain your current practices."

AltWaiting ==
  "Alternative crop suggestions will appear here once stable soil readings are available. For now, focus on reaching the optimal ranges for the selected crop."

AltWell ==
  "* The selected crop is doing well. If issues arise, consider alternative crops like Lemongrass or Okra based on soil conditions."

AltPrefix ==
  "* Based on your current soil conditions, consider switching to one of the following alternative crops: "

\* numVal === null: the forEach callback returns
NoValue(t, p) == t[p.key] = <<>>

\* const thr = thrMap[p.key]; if (!thr) return;  in buildCropReco
NoThr(thr, p) == p.key \notin DOMAIN thr

\* if (numVal < min)
IsLow_Inclusive(numVal, min) == numVal <= min

IsLow(numVal, min) == numVal < min

\* else if (numVal > max)
IsHigh(numVal, max) == numVal > max

\* the template of one issue line
IssueLine(p, dir, numVal, r) ==
  LET unit == IF r.unit # "" THEN r.unit ELSE p.unit
      baseDesc == IF r.descr = <<>> THEN "" ELSE r.descr[1]
  IN "* " \o p.label \o " is " \o dir \o " (" \o ToString(numVal)
       \o (IF unit # "" THEN " " \o unit ELSE "")
       \o "; optimal " \o ToString(r.val_min) \o "-" \o ToString(r.val_max)
       \o " " \o unit \o "). " \o baseDesc \o "<br>"

\* the body of PARAMS.forEach in buildCropReco: what it pushes to issues
IssueOf(p, t, thr) ==
  IF NoValue(t, p) \/ NoThr(thr, p) THEN <<>>
  ELSE LET numVal == t[p.key][1]
           r == thr[p.key]
       IN IF IsLow(numVal, r.val_min) THEN <<IssueLine(p, "LOW", numVal, r)>>
          ELSE IF IsHigh(numVal, r.val_max) THEN <<IssueLine(p, "HIGH", numVal, r)>>
          ELSE <<>>

\* issues after PARAMS.forEach, from entry i on
RECURSIVE IssuesFrom(_, _, _)
IssuesFrom(i, t, thr) ==
  IF i > Len(PARAMS) THEN <<>>
  ELSE IssueOf(PARAMS[i], t, thr) \o IssuesFrom(i + 1, t, thr)

buildCropReco_NoWaiting(t, thr) ==
  IF t = null THEN CropWell
  ELSE LET issues == IssuesFrom(1, t, thr)
       IN IF Len(issues) = 0 THEN CropWell ELSE Join(issues, "\n")

buildCropReco(t, thr) ==
  IF t = null THEN CropWaiting
  ELSE LET issues == IssuesFrom(1, t, thr)
       IN IF Len(issues) = 0 THEN CropWell ELSE Join(issues, "\n")

\* const thr = thrMap[p.key]; if (!thr) return;  in buildAltReco
AltNoThr_Ignored(thr, p) == FALSE

AltNoThr(thr, p) == p.key \notin DOMAIN thr

\* the three fixed conditions; thr is in scope and not used
MoistDry_ByRule(numVal, r) == numVal < r.val_min

MoistDry_Flipped(numVal, r) == numVal > 40

MoistDry(numVal, r) == numVal < 40

EcHigh(numVal, r) == numVal > 2

TempHot(numVal, r) == numVal > 30

\* altCropRecommendations.find(rec => rec.soil_param === sp && rec.reading_range === rr)
Find(alt, sp, rr) ==
  LET idx == {i \in 1..Len(alt) : alt[i].soil_param = sp /\ alt[i].reading_range = rr}
  IN IF idx = {} THEN <<>>
     ELSE <<alt[CHOOSE i \in idx : \A j \in idx : i <= j]>>

\* if (altCrop && !recommendedCrops.includes(altCrop.recommended_crop)) push
PushCrop_NoDedup(acc, altCrop) ==
  IF altCrop # <<>> THEN Append(acc, altCrop[1].recommended_crop) ELSE acc

PushCrop(acc, altCrop) ==
  IF altCrop # <<>> /\ \A i \in 1..Len(acc) : acc[i] # altCrop[1].recommended_crop
    THEN Append(acc, altCrop[1].recommended_crop)
    ELSE acc

\* the body of PARAMS.forEach in buildAltReco: recommendedCrops after entry p
AltStep(p, t, thr, alt, acc) ==
  IF NoValue(t, p) \/ AltNoThr(thr, p) THEN acc
  ELSE LET numVal == t[p.key][1]
           r == thr[p.key]
           a1 == IF p.key = "moist_pct" /\ MoistDry(numVal, r)
                   THEN PushCrop(acc, Find(alt, "Soil Moisture", "<40% (dry)"))
                   ELSE acc
           a2 == IF p.key = "ec_ms" /\ EcHigh(numVal, r)
                   THEN PushCrop(a1, Find(alt, "EC", "High EC (>2.0 mS/cm)"))
                   ELSE a1
       IN IF p.key = "temp_c" /\ TempHot(numVal, r)
            THEN PushCrop(a2, Find(alt, "Soil Temperature", ">30 C (hot soil)"))
            ELSE a2

\* recommendedCrops after PARAMS.forEach, from entry i on
RECURSIVE AltFrom(_, _, _, _, _)
AltFrom(i, t, thr, alt, acc) ==
  IF i > Len(PARAMS) THEN acc
  ELSE AltFrom(i + 1, t, thr, alt, AltStep(PARAMS[i], t, thr, alt, acc))

recommendedCrops(t, thr, alt) == AltFrom(1, t, thr, alt, <<>>)

buildAltReco(t, thr, alt) ==
  IF t = null THEN AltWaiting
  ELSE IF Len(recommendedCrops(t, thr, alt)) = 0 THEN AltWell
  ELSE AltPrefix \o Join(recommendedCrops(t, thr, alt), ", ") \o "."

\* a render of Live: the two helpers are called on the state of this render
Render ==
  /\ cropReco' = buildCropReco(telem, thrMap)
  /\ altReco' = buildAltReco(telem, thrMap, altCropRecommendations)
  /\ UNCHANGED <<liveVars, analyticsVars, altCropRecommendations, memoVars, tableVars>>

\* ---------------------------------------------- DatabaseTable
ALLOWED_SORT_COLUMNS ==
  {"bkt_30m", "crop_text", "device_name", "ph", "moist_pct", "temp_c", "ec_ms",
   "n_mgkg", "p_mgkg", "k_mgkg"}

\* the view sens_rdg_with_device: thirteen buckets, eleven in the last 24 hours,
\* one more in the last 7 days, one more in the last 30 days
SensRows ==
  { [id |-> k,
     bkt_30m |-> (IF k <= 11 THEN 1000 - 2 * k ELSE IF k = 12 THEN 900 ELSE 500),
     crop_text |-> (IF k % 3 = 0 THEN "Pechay" ELSE IF k % 3 = 1 THEN "Okra" ELSE "Lemongrass"),
     ph |-> 50 + ((7 * k) % 12)] : k \in 1..13 }

\* the values the controls and the callers of toggleSort pass
Searches == {"", "OK", " pe "}

TimeFilters == {"24h", "7d", "30d"}

RowLimits == {<<>>, <<10>>}

SortArgs == {"bkt_30m", "crop_text", "ph", "price"}

\* search.trim()
RECURSIVE Trim(_)
Trim(str) ==
  IF Len(str) = 0 THEN str
  ELSE IF SubSeq(str, 1, 1) = " " THEN Trim(SubSeq(str, 2, Len(str)))
  ELSE IF SubSeq(str, Len(str), Len(str)) = " " THEN Trim(SubSeq(str, 1, Len(str) - 1))
  ELSE str

\* ilike compares without regard to case: the letters of the texts in use
LowerChar(ch) ==
  CASE ch = "O" -> "o" [] ch = "K" -> "k" [] ch = "P" -> "p" [] ch = "L" -> "l"
    [] OTHER -> ch

RECURSIVE Lower(_)
Lower(str) ==
  IF Len(str) = 0 THEN str
  ELSE LowerChar(SubSeq(str, 1, 1)) \o Lower(SubSeq(str, 2, Len(str)))

\* query.ilike("crop_text", `%${pat}%`)
ILike(text, pat) ==
  \E i \in 1..(Len(text) - Len(pat) + 1) :
    SubSeq(Lower(text), i, i + Len(pat) - 1) = Lower(pat)

\* getTimeThreshold(filter), on the clock that reads 1000 now
TimeThreshold(filter) ==
  1000 - (CASE filter = "24h" -> 24 [] filter = "7d" -> 7 * 24 [] filter = "30d" -> 30 * 24)

\* ALLOWED_SORT_COLUMNS.includes(sortBy.col) ? sortBy.col : "bkt_30m"  in loadRows
SortCol(sb) == IF sb.col \in ALLOWED_SORT_COLUMNS THEN sb.col ELSE "bkt_30m"

\* the place of a row under .order(col, { ascending }): texts in alphabetical
\* order; rows of equal value come in an order the store chooses, by id up or down
OrderKey(r, col, asc, tie) ==
  LET v == IF col = "crop_text"
             THEN (IF r.crop_text = "Lemongrass" THEN 1
                   ELSE IF r.crop_text = "Okra" THEN 2 ELSE 3)
             ELSE r[col]
  IN (IF asc THEN v ELSE 0 - v) * 100 + (IF tie = "up" THEN r.id ELSE 0 - r.id)

RECURSIVE Ordered(_, _, _, _)
Ordered(S, col, asc, tie) ==
  IF S = {} THEN <<>>
  ELSE LET r == CHOOSE r \in S :
                  \A r2 \in S : OrderKey(r, col, asc, tie) <= OrderKey(r2, col, asc, tie)
       IN <<r>> \o Ordered(S \ {r}, col, asc, tie)

\* the answer of the store to the query of loadRows: data and the exact count
Query(q, tie) ==
  LET timed == {r \in SensRows : r.bkt_30m >= TimeThreshold(q.timeFilter)}
      hits == IF Len(Trim(q.search)) > 0
                THEN {r \in timed : ILike(r.crop_text, Trim(q.search))}
                ELSE timed
      all == Ordered(hits, SortCol(q.sortBy), q.sortBy.asc, tie)
  IN [data |-> IF q.rowLimit # <<>> /\ q.rowLimit[1] < Len(all)
                 THEN SubSeq(all, 1, q.rowLimit[1]) ELSE all,
      count |-> Cardinality(hits)]

\* a render with a changed dependency: the cleanup sets cancelled of the
\* previous run, then loadRows() runs up to its await
LoadRows(q) ==
  /\ Len(tableLoad) < MaxTableLoads
  /\ dbLoading' = TRUE
  /\ tableLoad' = Append([tableLoad EXCEPT ![Len(tableLoad)].cancelled = TRUE],
                         [search |-> q.search, timeFilter |-> q.timeFilter,
                          rowLimit |-> q.rowLimit, sortBy |-> q.sortBy,
                          cancelled |-> FALSE, st |-> "pending"])

\* the filter values of the current render
Filters == [search |-> search, timeFilter |-> timeFilter, rowLimit |-> rowLimit,
            sortBy |-> sortBy]

SetSearch(str) ==
  /\ str # search
  /\ search' = str
  /\ LoadRows([Filters EXCEPT !.search = str])
  /\ UNCHANGED <<dbRows, total, timeFilter, rowLimit, sortBy, toggles>>
  /\ UNCHANGED <<liveVars, analyticsVars, adviceVars, memoVars>>

SetTimeFilter(f) ==
  /\ f # timeFilter
  /\ timeFilter' = f
  /\ LoadRows([Filters EXCEPT !.timeFilter = f])
  /\ UNCHANGED <<dbRows, total, search, rowLimit, sortBy, toggles>>
  /\ UNCHANGED <<liveVars, analyticsVars, adviceVars, memoVars>>

SetRowLimit(l) ==
  /\ l # rowLimit
  /\ rowLimit' = l
  /\ LoadRows([Filters EXCEPT !.rowLimit = l])
  /\ UNCHANGED <<dbRows, total, search, timeFilter, sortBy, toggles>>
  /\ UNCHANGED <<liveVars, analyticsVars, adviceVars, memoVars>>

\* const safeCol = ALLOWED_SORT_COLUMNS.includes(col) ? col : "bkt_30m"
SafeCol_Unchecked(col) == col

SafeCol(col) == IF col \in ALLOWED_SORT_COLUMNS THEN col ELSE "bkt_30m"

\* toggleSort(col): setSortBy always passes a new object, so the effect re-runs
ToggleSort(col) ==
  /\ toggles' = Append(toggles, col)
  /\ sortBy' = IF sortBy.col = SafeCol(col)
                 THEN [col |-> SafeCol(col), asc |-> ~sortBy.asc]
                 ELSE [col |-> SafeCol(col), asc |-> TRUE]
  /\ LoadRows([Filters EXCEPT !.sortBy = sortBy'])
  /\ UNCHANGED <<dbRows, total, search, timeFilter, rowLimit>>
  /\ UNCHANGED <<liveVars, analyticsVars, adviceVars, memoVars>>

\* if (!cancelled) ...
TableApplies_NoFlag(l) == TRUE

TableApplies(l) == ~l.cancelled

\* the query answers: if (!cancelled) { setRows; setTotal }  finally setLoading(false)
TableLoadOk(i, tie) ==
  /\ tableLoad[i].st = "pending"
  /\ IF TableApplies(tableLoad[i])
       THEN /\ dbRows' = Query(tableLoad[i], tie).data
            /\ total' = <<Query(tableLoad[i], tie).count>>
            /\ dbLoading' = FALSE
            /\ tableLoad' = [tableLoad EXCEPT ![i].st = "applied"]
       ELSE /\ UNCHANGED <<dbRows, total, dbLoading>>
            /\ tableLoad' = [tableLoad EXCEPT ![i].st = "discarded"]
  /\ UNCHANGED <<search, timeFilter, rowLimit, sortBy, toggles>>
  /\ UNCHANGED <<liveVars, analyticsVars, adviceVars, memoVars>>

\* if (error) throw error; catch: console.error; finally: if (!cancelled) setLoading(false)
TableLoadError(i) ==
  /\ tableLoad[i].st = "pending"
  /\ tableLoad' = [tableLoad EXCEPT ![i].st = "error"]
  /\ dbLoading' = IF TableApplies(tableLoad[i]) THEN FALSE ELSE dbLoading
  /\ UNCHANGED <<dbRows, total, search, timeFilter, rowLimit, sortBy, toggles>>
  /\ UNCHANGED <<liveVars, analyticsVars, adviceVars, memoVars>>

\* ------------------------------------------- inputs of the recommendation helpers
\* readings: moisture around 40 and around the rules' bounds, temperature around
\* 30, EC around 2, the other columns null or one value
AdviceReadings ==
  { [crop |-> "pechay", upd_at |-> 1, moist_pct |-> m, temp_c |-> tc, ec_ms |-> e,
     ph |-> h, n_mgkg |-> <<>>, p_mgkg |-> <<>>, k_mgkg |-> k] :
      m \in {<<>>, <<35>>, <<40>>, <<55>>, <<70>>, <<75>>},
      tc \in {<<>>, <<30>>, <<31>>},
      e \in {<<>>, <<2>>, <<3>>},
      h \in {<<>>, <<5>>},
      k \in {<<>>, <<300>>} }

\* rules a catalog may hold besides those of CropThrTable
ThrRulePool ==
  CropThrTable \cup
  { [crop |-> "pechay", param |-> "ec_ms",  val_min |-> 1, val_max |-> 2,
     unit |-> "mS/cm", descr |-> <<"Flush the bed.">>],
    [crop |-> "pechay", param |-> "ph",     val_min |-> 6, val_max |-> 7,
     unit |-> "", descr |-> <<>>],
    [crop |-> "pechay", param |-> "k_mgkg", val_min |-> 100, val_max |-> 200,
     unit |-> "", descr |-> <<"Hold the potash.">>] }

\* catalogs: at most one rule per parameter
AdviceCatalogs ==
  { BuildThrMap(S) : S \in { S \in SUBSET ThrRulePool :
        \A r1, r2 \in S : r1.param = r2.param => r1 = r2 } }

\* alt_crop_reco tables: empty, one crop per condition, two conditions on one
\* crop, a condition without a row, two rows for one condition
AdviceAltTables ==
  LET moist(c) == [soil_param |-> "Soil Moisture", reading_range |-> "<40% (dry)",
                   recommended_crop |-> c]
      ec(c) == [soil_param |-> "EC", reading_range |-> "High EC (>2.0 mS/cm)",
                recommended_crop |-> c]
      temp(c) == [soil_param |-> "Soil Temperature", reading_range |-> ">30 C (hot soil)",
                  recommended_crop |-> c]
  IN { <<>>,
       <<moist("Okra"), ec("Lemongrass"), temp("Cassava")>>,
       <<moist("Okra"), ec("Lemongrass"), temp("Okra")>>,
       <<ec("Lemongrass"), temp("Okra")>>,
       <<moist("Cassava"), moist("Okra"), temp("Lemongrass")>> }

\* ---------------------------------------------- specifications
InitLive ==
  /\ mounted = TRUE
  /\ dev = noDev
  /\ crop = "pechay"
  /\ telem = null
  /\ loading = TRUE
  /\ thrMap = BuildThrMap({})
  /\ chartData = <<>>
  /\ devLoad = "pending"
  /\ devWrite = <<>>
  /\ telemRt = TelemRt0
  /\ snapLoad = <<[crop |-> "pechay", cancelled |-> FALSE, st |-> "pending",
                  at |-> Len(TelemRt0)]>>
  /\ thrLoad = <<[crop |-> "pechay", cancelled |-> FALSE, st |-> "pending"]>>
  /\ chartLoad = <<[crop |-> "pechay", st |-> "pending"]>>
  /\ channel = <<[crop |-> "pechay", state |-> "open", removes |-> 0,
                 seen |-> Len(TelemRt0), upto |-> 0]>>
  /\ device \in DevRows \cup {noDev}
  /\ calls = <<>>

InitAnalytics ==
  /\ aCrop = "pechay"
  /\ win = "24h"
  /\ rows = <<>>
  /\ aLoading = TRUE
  /\ histLoad = <<[crop |-> "pechay", win |-> "24h", st |-> "pending"]>>

\* no alt_crop_reco row loaded, nothing rendered
InitAdvice ==
  /\ altCropRecommendations = <<>>
  /\ cropReco = ""
  /\ altReco = ""

\* rows is [], so stats and graphData are []
InitMemo ==
  /\ stats = <<>>
  /\ graphData = <<>>

\* DatabaseTable once mounted: the loadRows effect has run for the initial state
InitTable ==
  /\ dbRows = <<>>
  /\ dbLoading = TRUE
  /\ total = <<>>
  /\ search = ""
  /\ timeFilter = "24h"
  /\ rowLimit = <<>>
  /\ sortBy = [col |-> "bkt_30m", asc |-> FALSE]
  /\ tableLoad = <<[search |-> "", timeFilter |-> "24h", rowLimit |-> <<>>,
                   sortBy |-> [col |-> "bkt_30m", asc |-> FALSE],
                   cancelled |-> FALSE, st |-> "pending"]>>
  /\ toggles = <<>>

Init == InitLive /\ InitAnalytics /\ InitAdvice /\ InitMemo /\ InitTable

\* the selection: device load, handleCropChange
NextSelect ==
  \/ DevLoadError
  \/ DevLoadOk
  \/ \E c \in Crops : HandleCropChange(c)

\* the selection with up to MaxWrites calls of handleCropChange
NextReselect ==
  \/ DevLoadError
  \/ DevLoadOk
  \/ \E c \in Crops : HandleCropChangeUpTo(c, MaxWrites)

\* the page goes away
NextUnmount == Unmount

\* the best-effort writes of device.cur_crop
NextDevWrite ==
  \/ \E i \in 1..Len(devWrite) : DevWriteOk(i)
  \/ \E i \in 1..Len(devWrite) : DevWriteError(i)

\* the snapshot loads and the ingest side
NextSnap ==
  \/ \E g \in 1..Len(snapLoad) : SnapLoadError(g)
  \/ \E g \in 1..Len(snapLoad), k \in 0..Len(telemRt) : SnapLoadOk(g, k)

\* the ingest side
NextIngest == \E c \in Crops : TelemWrite(c)

\* the push events
NextPush ==
  \/ \E g \in 1..Len(channel) : OnInsert(g)
  \/ \E g \in 1..Len(channel) : OnUpdate(g)

NextThr ==
  \/ \E g \in 1..Len(thrLoad) : ThrLoadError(g)
  \/ \E g \in 1..Len(thrLoad) : ThrLoadOk(g)

NextChart ==
  \/ \E g \in 1..Len(chartLoad) : ChartLoadError(g)
  \/ \E g \in 1..Len(chartLoad) : ChartLoadOk(g)

NextAnalytics ==
  \/ \E c \in Crops : ASetCrop(c)
  \/ \E w \in TimeWins : ASetWin(w)
  \/ \E i \in 1..Len(histLoad) : HistLoadError(i)
  \/ \E i \in 1..Len(histLoad) : HistLoadOk(i)

(***************************************************************************)
(* The completions of the loads of one kind write only that kind's state   *)
(* (telem, thrMap, chartData, device), and no guard reads another kind's,  *)
(* so each specification below runs the selection together with the loads  *)
(* of one kind; the loads of the other kinds are issued and stay pending.  *)
(* After unmount every cancelled flag is set, the channel is removed and   *)
(* React drops what is written to the state, so SpecFeed, which is about   *)
(* the reading of the mounted page, runs without Unmount.                  *)
(***************************************************************************)
\* TelemetryFeed: snapshot loads and the push channel, while mounted
SpecFeed == Init /\ [][NextSelect \/ NextSnap \/ NextIngest \/ NextPush]_vars

\* the loads that carry a cancelled flag: snapshot and threshold catalog
SpecLoads == Init /\ [][NextSelect \/ NextUnmount \/ NextSnap \/ NextThr]_vars

\* ThresholdCatalog
SpecCatalog == Init /\ [][NextSelect \/ NextUnmount \/ NextThr]_vars

\* the chart series of Live
SpecChart == Init /\ [][NextSelect \/ NextUnmount \/ NextChart]_vars

\* SelectionController: the selection and its persistence
SpecSelect == Init /\ [][NextSelect \/ NextUnmount \/ NextDevWrite]_vars

\* SelectionController: several changes of the selection and their writes
SpecPersist == Init /\ [][NextReselect \/ NextDevWrite]_vars

\* HistoryAggregator: the rows of Analytics
SpecAnalytics == Init /\ [][NextAnalytics]_vars

\* DatabaseTable: the history log
NextTable ==
  \/ \E str \in Searches : SetSearch(str)
  \/ \E f \in TimeFilters : SetTimeFilter(f)
  \/ \E l \in RowLimits : SetRowLimit(l)
  \/ \E col \in SortArgs : ToggleSort(col)
  \/ \E i \in 1..Len(tableLoad), tie \in {"up", "down"} : TableLoadOk(i, tie)
  \/ \E i \in 1..Len(tableLoad) : TableLoadError(i)

SpecTable == Init /\ [][NextTable]_vars

\* HistoryAggregator: the summaries over every window the load may have applied
InitStats ==
  /\ InitLive
  /\ aCrop = "pechay"
  /\ win = "24h"
  /\ rows \in HistWindows
  /\ aLoading = FALSE
  /\ histLoad = <<[crop |-> "pechay", win |-> "24h", st |-> "applied"]>>
  /\ InitAdvice
  /\ stats = <<>>
  /\ graphData = <<>>
  /\ InitTable

NextStats == AnalyticsRender

SpecStats == InitStats /\ [][NextStats]_vars

\* AdvisoryEngine: the helpers on every reading, catalog and alt-crop table
InitAdvisory ==
  /\ mounted = TRUE
  /\ dev = noDev
  /\ crop = "pechay"
  /\ telem \in AdviceReadings \cup {null}
  /\ loading = FALSE
  /\ thrMap \in AdviceCatalogs
  /\ chartData = <<>>
  /\ devLoad = "done"
  /\ devWrite = <<>>
  /\ telemRt = TelemRt0
  /\ snapLoad = <<[crop |-> "pechay", cancelled |-> FALSE, st |-> "applied",
                  at |-> Len(TelemRt0)]>>
  /\ thrLoad = <<[crop |-> "pechay", cancelled |-> FALSE, st |-> "applied"]>>
  /\ chartLoad = <<[crop |-> "pechay", st |-> "pending"]>>
  /\ channel = <<[crop |-> "pechay", state |-> "open", removes |-> 0,
                 seen |-> Len(TelemRt0), upto |-> 0]>>
  /\ device = noDev
  /\ calls = <<>>
  /\ InitAnalytics
  /\ altCropRecommendations \in AdviceAltTables
  /\ cropReco = ""
  /\ altReco = ""
  /\ InitMemo
  /\ InitTable

NextAdvisory == Render

SpecAdvisory == InitAdvisory /\ [][NextAdvisory]_vars

\* ------------------------------------------------------------------ claims
\* a load leaves "pending" in this step: its continuation after the await runs
Resolves(load, g) == load[g].st = "pending" /\ load'[g].st # "pending"

StaleRowsDiscarded ==
  \A i \in 1..Len(histLoad) :
    (Resolves(histLoad, i) /\ histLoad[i].crop # aCrop) => rows' = rows

StaleChartDiscarded ==
  \A g \in 1..Len(chartLoad) :
    (Resolves(chartLoad, g) /\ chartLoad[g].crop # crop) => chartData' = chartData

C2_StaleBucketsDiscarded == [][StaleRowsDiscarded /\ StaleChartDiscarded]_vars

\* C3: the current reading is absent or is a reading of the selected crop.
C3_ReadingOfSelectedCrop == telem = null \/ telem.crop = crop

\* C4: a push event carrying a reading of a crop other than the selected one is
\* never applied to the current reading, whichever handler it is delivered to.
Delivered(g) == channel'[g].seen = channel[g].seen + 1

C4_NoEventOfOtherCrop ==
  [][ \A g \in 1..Len(channel) :
        (Delivered(g) /\ telemRt[channel[g].seen + 1].new.crop # crop)
          => telem' = telem ]_vars

\* C5: the only channel that can be open is the newest one, it is open while the
\* page is mounted and was created for the selected crop; every other channel,
\* and every channel after unmount, was removed exactly once.
C5_OneChannel ==
  /\ \A g \in 1..Len(channel) :
       /\ channel[g].state = "open" <=> (mounted /\ g = Gen)
       /\ channel[g].state = "open" => (channel[g].crop = crop /\ channel[g].removes = 0)
       /\ channel[g].state # "open" => channel[g].removes = 1
  /\ Cardinality({g \in 1..Len(channel) : channel[g].state = "open"}) <= 1

\* mount, two changes of crop, unmount
C5_Witness == ~mounted /\ Gen >= 3 /\ channel[1].crop # channel[2].crop

AcceptedSince(g) ==
  {i \in (snapLoad[g].at + 1)..channel[g].seen : telemRt[i].new.crop = channel[g].crop}

C7_SnapshotNeverOlder ==
  [][ \A g \in 1..Len(snapLoad) :
        (Resolves(snapLoad, g) /\ g = Gen /\ mounted /\ AcceptedSince(g) # {})
          => /\ telem' # null
             /\ \A i \in AcceptedSince(g) : telem'.upd_at >= telemRt[i].new.upd_at ]_vars

\* C8: handleCropChange makes its argument the selection, with or without a
\* device row, and the write it issues carries that value; the answer to a
\* write, ok or error, leaves the selection alone.
IsCall == Len(calls') = Len(calls) + 1

C8_SelectionNotRolledBack ==
  [][ /\ IsCall =>
           /\ crop' = Last(calls')
           /\ devWrite' = IF dev = noDev THEN devWrite
                          ELSE Append(devWrite, [cur_crop |-> crop', st |-> "pending"])
      /\ \A i \in 1..Len(devWrite) : Resolves(devWrite, i) => crop' = crop ]_vars

\* the write failed, the store still holds another crop, the selection stands
C8_Witness ==
  /\ devWrite # <<>>
  /\ Last(devWrite).st = "error"
  /\ crop = Last(calls)
  /\ device.cur_crop # crop

\* C9: handleCropChange with the crop already selected changes nothing of the
\* selection, the reading, the catalog, the chart, the loads or the channels.
C9_SameCropNoReload ==
  [][ (IsCall /\ Last(calls') = crop)
        => UNCHANGED <<crop, telem, thrMap, chartData, snapLoad, thrLoad, chartLoad,
                       channel>> ]_vars

\* the device load selected okra, then handleCropChange('okra') was called
C9_Witness ==
  /\ dev.cur_crop = "okra"
  /\ calls # <<>> /\ Last(calls) = "okra"
  /\ crop = "okra"
  /\ Gen = 2

\* C10: a threshold load that fails leaves the catalog as it was; the catalog
\* changes only when a load that is not cancelled succeeds, and is then exactly
\* the map built from the fetched rows.
C10_CatalogFailSoft ==
  [][ /\ \A g \in 1..Len(thrLoad) :
           (Resolves(thrLoad, g) /\ thrLoad'[g].st = "error") => thrMap' = thrMap
      /\ thrMap' # thrMap =>
           \E g \in 1..Len(thrLoad) :
             /\ Resolves(thrLoad, g) /\ thrLoad'[g].st = "applied"
             /\ ~thrLoad[g].cancelled
             /\ thrMap' = BuildThrMap(CropThrRows(thrLoad[g].crop)) ]_vars

\* the load of the selected crop failed and the catalog of the crop before it,
\* which has rules, is still there
C10_Witness ==
  /\ thrLoad[Gen].st = "error"
  /\ DOMAIN thrMap # {}
  /\ \E p \in DOMAIN thrMap : thrMap[p].crop # crop

\* C11: every rule of the catalog belongs to the selected crop.
C11_CatalogOfSelectedCrop == \A p \in DOMAIN thrMap : thrMap[p].crop = crop

\* C11, as it holds: the catalog is empty or is the map built by one applied
\* load, so its rules are of one crop; once the load of the selected crop has
\* been applied that crop is the selected one.
C11_CatalogOfAppliedLoad ==
  /\ \/ thrMap = BuildThrMap({})
     \/ \E g \in 1..Len(thrLoad) :
          /\ thrLoad[g].st = "applied"
          /\ thrMap = BuildThrMap(CropThrRows(thrLoad[g].crop))
  /\ thrLoad[Gen].st = "applied" => C11_CatalogOfSelectedCrop

\* the load of an earlier crop came back after the selected crop's catalog was in
C11_Witness ==
  /\ thrLoad[Gen].st = "applied"
  /\ DOMAIN thrMap # {}
  /\ \E g \in 1..(Gen - 1) :
       /\ thrLoad[g].st = "discarded"
       /\ thrLoad[g].crop # crop
       /\ CropThrRows(thrLoad[g].crop) # {}

\* C12: a fetch that fails leaves what was loaded before in place: the catalog,
\* the reading, the chart series and the rows of Analytics.
C12_FailedFetchKeepsValue ==
  [][ /\ \A g \in 1..Len(thrLoad) :
           (Resolves(thrLoad, g) /\ thrLoad'[g].st = "error") => thrMap' = thrMap
      /\ \A g \in 1..Len(snapLoad) :
           (Resolves(snapLoad, g) /\ snapLoad'[g].st = "error") => telem' = telem
      /\ \A g \in 1..Len(chartLoad) :
           (Resolves(chartLoad, g) /\ chartLoad'[g].st = "error")
             => chartData' = chartData
      /\ \A i \in 1..Len(histLoad) :
           (Resolves(histLoad, i) /\ histLoad'[i].st = "error") => rows' = rows ]_vars

\* ------------------------------------------------- claims on the recommendations
\* the text split at its line feeds
NthCut(cuts, k) == CHOOSE c \in cuts : Cardinality({d \in cuts : d < c}) = k

LinesOf(s) ==
  LET cuts == {0, Len(s) + 1} \cup {i \in 1..Len(s) : SubSeq(s, i, i) = "\n"}
  IN [k \in 1..(Cardinality(cuts) - 1) |->
        SubSeq(s, NthCut(cuts, k - 1) + 1, NthCut(cuts, k) - 1)]

StartsWith(s, pre) == Len(s) >= Len(pre) /\ SubSeq(s, 1, Len(pre)) = pre

EndsWith(s, post) ==
  Len(s) >= Len(post) /\ SubSeq(s, Len(s) - Len(post) + 1, Len(s)) = post

\* the positions of the lines that report parameter p as dir
LinesFor(lines, p, dir) ==
  LET pre == "* " \o p.label \o " is " \o dir \o " ("
  IN {k \in DOMAIN lines : StartsWith(lines[k], pre)}

\* the helpers have run on this state's reading, catalog and table
Rendered == cropReco # "" /\ altReco # ""

\* parameter p has a value in the reading and a rule in the catalog
Judged(key) == telem # null /\ telem[key] # <<>> /\ key \in DOMAIN thrMap

\* C13: a value with a rule valMin <= valMax gets a LOW line iff it is below
\* valMin, a HIGH line iff it is above valMax, never both, and no line when it
\* equals valMin or valMax.
C13_ClassifiedByBounds ==
  LET lines == LinesOf(cropReco) IN
    Rendered =>
      \A i \in DOMAIN PARAMS :
        LET p == PARAMS[i] IN
          (Judged(p.key) /\ thrMap[p.key].val_min <= thrMap[p.key].val_max) =>
            LET v == telem[p.key][1]
                r == thrMap[p.key]
                low == Cardinality(LinesFor(lines, p, "LOW"))
                high == Cardinality(LinesFor(lines, p, "HIGH"))
            IN /\ low = (IF v < r.val_min THEN 1 ELSE 0)
               /\ high = (IF v > r.val_max THEN 1 ELSE 0)
               /\ low + high <= 1
               /\ (v = r.val_min \/ v = r.val_max) => low + high = 0

\* a reading with moisture on the upper bound, pH below and temperature above
C13_Witness ==
  LET lines == LinesOf(cropReco) IN
    /\ Rendered
    /\ telem # null
    /\ "moist_pct" \in DOMAIN thrMap
    /\ telem.moist_pct = <<thrMap["moist_pct"].val_max>>
    /\ LinesFor(lines, PARAMS[1], "LOW") \cup LinesFor(lines, PARAMS[1], "HIGH") = {}
    /\ LinesFor(lines, PARAMS[4], "LOW") # {}
    /\ LinesFor(lines, PARAMS[2], "HIGH") # {}

\* the crops the alternative-crop sentence names, in the order it names them
NamedCrops ==
  IF StartsWith(altReco, AltPrefix) /\ EndsWith(altReco, ".")
    THEN LET list == SubSeq(altReco, Len(AltPrefix) + 1, Len(altReco) - 1)
             cuts == {-1, Len(list) + 1} \cup
                       {i \in 1..Len(list) : SubSeq(list, i, i) = ","}
         IN [k \in 1..(Cardinality(cuts) - 1) |->
               SubSeq(list, NthCut(cuts, k - 1) + 2, NthCut(cuts, k) - 1)]
    ELSE <<>>

\* the three conditions as the specification lists them
CondKeys == <<"moist_pct", "ec_ms", "temp_c">>

Triggered(key, v) ==
  CASE key = "moist_pct" -> v < 40
    [] key = "ec_ms"     -> v > 2
    [] key = "temp_c"    -> v > 30

\* the crop the alt-crop table maps the condition on key to: <<>> or <<crop>>
CondCrop(key) ==
  LET hits == CASE key = "moist_pct" ->
                     Find(altCropRecommendations, "Soil Moisture", "<40% (dry)")
                [] key = "ec_ms" ->
                     Find(altCropRecommendations, "EC", "High EC (>2.0 mS/cm)")
                [] key = "temp_c" ->
                     Find(altCropRecommendations, "Soil Temperature", ">30 C (hot soil)")
  IN IF hits = <<>> THEN <<>> ELSE <<hits[1].recommended_crop>>

\* C14: a parameter with a null value or without a rule has no LOW or HIGH line,
\* and every crop the alternative-crop sentence names comes from a triggered
\* condition on a parameter that has both a value and a rule.
C14_SkippedContributesNothing ==
  LET lines == LinesOf(cropReco) IN
    (Rendered /\ telem # null) =>
      /\ \A i \in DOMAIN PARAMS :
           ~Judged(PARAMS[i].key) =>
             LinesFor(lines, PARAMS[i], "LOW") \cup LinesFor(lines, PARAMS[i], "HIGH") = {}
      /\ LET named == NamedCrops
         IN \A n \in DOMAIN named :
              \E j \in DOMAIN CondKeys :
                /\ Judged(CondKeys[j])
                /\ Triggered(CondKeys[j], telem[CondKeys[j]][1])
                /\ CondCrop(CondKeys[j]) = <<named[n]>>

\* moisture 35 without a moisture rule, a table that maps dry soil to a crop,
\* a temperature rule without a temperature value: nothing is reported
C14_Witness ==
  /\ Rendered
  /\ telem # null
  /\ telem.moist_pct = <<35>>
  /\ "moist_pct" \notin DOMAIN thrMap
  /\ CondCrop("moist_pct") # <<>>
  /\ telem.temp_c = <<>>
  /\ "temp_c" \in DOMAIN thrMap
  /\ altReco = AltWell
  /\ cropReco = CropWell

\* C15 (as stated): for the reading and table of this state, buildAltReco
\* returns the rendered sentence under every threshold catalog.
C15_AltIgnoresCatalog ==
  Rendered =>
    \A m2 \in AdviceCatalogs :
      buildAltReco(telem, m2, altCropRecommendations) = altReco

\* C15 (amended): buildAltReco returns the rendered sentence under every
\* catalog that has a rule for the same ones of moisture, EC and temperature;
\* the bounds, unit and description of the rules do not matter.
C15_AltReadsOnlyRulePresence ==
  Rendered =>
    \A m2 \in AdviceCatalogs :
      (\A j \in DOMAIN CondKeys :
         CondKeys[j] \in DOMAIN m2 <=> CondKeys[j] \in DOMAIN thrMap) =>
        buildAltReco(telem, m2, altCropRecommendations) = altReco

\* moisture 35 is inside the rule's range 30-60 and the sentence still names
\* the dry-soil crop; another catalog holds the moisture rule 40-70
C15_Witness ==
  /\ Rendered
  /\ telem # null
  /\ telem.moist_pct = <<35>>
  /\ "moist_pct" \in DOMAIN thrMap
  /\ thrMap["moist_pct"].val_min = 30
  /\ CondCrop("moist_pct") # <<>>
  /\ NamedCrops # <<>>
  /\ NamedCrops[1] = CondCrop("moist_pct")[1]
  /\ \E m2 \in AdviceCatalogs :
       /\ DOMAIN m2 = DOMAIN thrMap
       /\ m2["moist_pct"].val_min = 40

\* every parameter of the reading is inside its rule's range or skipped
AllOkOrSkipped ==
  \A i \in DOMAIN PARAMS :
    Judged(PARAMS[i].key) =>
      /\ telem[PARAMS[i].key][1] >= thrMap[PARAMS[i].key].val_min
      /\ telem[PARAMS[i].key][1] <= thrMap[PARAMS[i].key].val_max

\* no condition on a judged parameter is triggered and mapped to a crop
NoConditionMet ==
  \A j \in DOMAIN CondKeys :
    ~ /\ Judged(CondKeys[j])
      /\ Triggered(CondKeys[j], telem[CondKeys[j]][1])
      /\ CondCrop(CondKeys[j]) # <<>>

FixedOrder == <<"moist_pct", "temp_c", "ec_ms", "ph", "n_mgkg", "p_mgkg", "k_mgkg">>

ParamOf(key) == PARAMS[CHOOSE i \in DOMAIN PARAMS : PARAMS[i].key = key]

\* the positions of the lines about the parameter key
LinesAbout(lines, key) == LinesFor(lines, ParamOf(key), "LOW") \cup LinesFor(lines, ParamOf(key), "HIGH")

\* the places in FixedOrder of the parameters outside their rule's range
OutOfRange ==
  {j \in DOMAIN FixedOrder :
     /\ Judged(FixedOrder[j])
     /\ \/ telem[FixedOrder[j]][1] < thrMap[FixedOrder[j]].val_min
        \/ telem[FixedOrder[j]][1] > thrMap[FixedOrder[j]].val_max}

\* C17: the advisory has exactly one line per parameter outside its range, and
\* the lines follow the order moisture, temperature, EC, pH, N, P, K.
C17_OneLineEachInFixedOrder ==
  LET lines == LinesOf(cropReco) IN
    (Rendered /\ telem # null /\ OutOfRange # {}) =>
      /\ Len(lines) = Cardinality(OutOfRange)
      /\ \A j \in OutOfRange : Cardinality(LinesAbout(lines, FixedOrder[j])) = 1
      /\ \A j1, j2 \in OutOfRange :
           j1 < j2 =>
             LET about1 == LinesAbout(lines, FixedOrder[j1])
                 about2 == LinesAbout(lines, FixedOrder[j2])
             IN \A k1 \in about1, k2 \in about2 : k1 < k2

\* moisture, temperature, pH and potassium are all out of range
C17_Witness ==
  LET lines == LinesOf(cropReco) IN
    /\ Rendered
    /\ telem # null
    /\ Cardinality(OutOfRange) = 4
    /\ LinesAbout(lines, "moist_pct") = {1}
    /\ LinesAbout(lines, "temp_c") = {2}
    /\ LinesAbout(lines, "ph") = {3}
    /\ LinesAbout(lines, "k_mgkg") = {4}

\* the crops of the met conditions in the order of CondKeys, each crop once
RECURSIVE CropsInListedOrder(_, _)
CropsInListedOrder(j, acc) ==
  IF j > Len(CondKeys) THEN acc
  ELSE LET key == CondKeys[j]
           met == /\ Judged(key)
                  /\ Triggered(key, telem[key][1])
                  /\ CondCrop(key) # <<>>
                  /\ \A n \in DOMAIN acc : acc[n] # CondCrop(key)[1]
       IN CropsInListedOrder(j + 1, IF met THEN Append(acc, CondCrop(key)[1]) ELSE acc)

\* C18: the sentence names, without duplicates, exactly the crops of the met
\* conditions, in the order moisture below 40, EC above 2.0, temperature above 30.
C18_CropsDedupedInListedOrder ==
  (Rendered /\ telem # null) => NamedCrops = CropsInListedOrder(1, <<>>)

\* C19: with a moisture rule, moisture below its valMin and below 40, and a
\* row of the table keyed (Soil Moisture, "<40% (dry)"), the advisory has a LOW
\* line for moisture and the alternative-crop sentence names the row's crop.
C19_DryMoistureEndToEnd ==
  LET lines == LinesOf(cropReco) IN
    ( /\ Rendered
      /\ Judged("moist_pct")
      /\ telem["moist_pct"][1] < thrMap["moist_pct"].val_min
      /\ telem["moist_pct"][1] < 40
      /\ CondCrop("moist_pct") # <<>> ) =>
        /\ LinesFor(lines, ParamOf("moist_pct"), "LOW") # {}
        /\ LET named == NamedCrops
           IN \E n \in DOMAIN named : named[n] = CondCrop("moist_pct")[1]

\* moisture 35 under the rule 40-70 with a dry-soil row in the table
C19_Witness ==
  LET lines == LinesOf(cropReco) IN
    /\ Rendered
    /\ Judged("moist_pct")
    /\ telem.moist_pct = <<35>>
    /\ thrMap["moist_pct"].val_min = 40
    /\ thrMap["moist_pct"].val_max = 70
    /\ CondCrop("moist_pct") # <<>>
    /\ LinesFor(lines, ParamOf("moist_pct"), "LOW") = {1}
    /\ NamedCrops # <<>>
    /\ NamedCrops[1] = CondCrop("moist_pct")[1]

\* ------------------------------------------------------ claims on the summaries
\* the buckets of rows whose value of the parameter key is not null
NonNull(key) == {k \in 1..Len(rows) : rows[k][key] # <<>>}

\* the sum of the values of the parameter key over the buckets S
RECURSIVE SumOver(_, _)
SumOver(S, key) ==
  IF S = {} THEN 0
  ELSE LET k == CHOOSE k \in S : TRUE
       IN rows[k][key][1] + SumOver(S \ {k}, key)

\* the memos hold the summaries of a non-empty window
Summarised == stats # <<>> /\ graphData # <<>>

\* the sum of the non-null values of the parameter key over the first n
\* buckets, accumulated in bucket order, each addition rounded
RECURSIVE SumInOrder(_, _)
SumInOrder(n, key) ==
  IF n = 0 THEN 0
  ELSE IF rows[n][key] = <<>> THEN SumInOrder(n - 1, key)
  ELSE Fl(SumInOrder(n - 1, key) + rows[n][key][1], 1)

\* min and max of entry i of stats are the smallest and the largest non-null value
MinMaxOfNonNull(i) ==
  LET key == stats[i].key
      S == NonNull(key)
  IN /\ stats[i].min # <<>> /\ stats[i].max # <<>> /\ stats[i].avg # <<>>
     /\ \E k \in S : rows[k][key][1] = stats[i].min[1]
     /\ \E k \in S : rows[k][key][1] = stats[i].max[1]
     /\ \A k \in S : /\ stats[i].min[1] <= rows[k][key][1]
                     /\ rows[k][key][1] <= stats[i].max[1]

\* C21 (as stated): for a parameter with a non-null value, min and max are the
\* smallest and the largest non-null value and min <= avg <= max.
C21_AvgBetweenMinAndMax ==
  Summarised =>
    \A i \in DOMAIN stats :
      NonNull(stats[i].key) # {} =>
        /\ MinMaxOfNonNull(i)
        /\ stats[i].min[1] <= stats[i].avg[1]
        /\ stats[i].avg[1] <= stats[i].max[1]

\* C21 (amended): min and max are the smallest and the largest non-null value;
\* avg is the sum of the non-null values, accumulated in bucket order with each
\* addition rounded, divided by their count and rounded; min <= avg <= max
\* when no addition of the sum rounded.
C21_AvgOfRoundedSum ==
  Summarised =>
    \A i \in DOMAIN stats :
      LET key == stats[i].key
          S == NonNull(key)
      IN S # {} =>
           /\ MinMaxOfNonNull(i)
           /\ stats[i].avg[1] = Fl(SumInOrder(Len(rows), key), Cardinality(S))
           /\ SumInOrder(Len(rows), key) = SumOver(S, key) =>
                /\ stats[i].min[1] <= stats[i].avg[1]
                /\ stats[i].avg[1] <= stats[i].max[1]

\* moisture [20, null, 28]: min 20, max 28, avg 24
C21_Witness ==
  /\ Summarised
  /\ Len(rows) = 3
  /\ rows[1].moist_pct = <<20>> /\ rows[2].moist_pct = <<>> /\ rows[3].moist_pct = <<28>>
  /\ stats[1].key = "moist_pct"
  /\ stats[1].min = <<20>>
  /\ stats[1].max = <<28>>
  /\ stats[1].avg = <<24>>

\* C22: for a parameter with a non-null value in the window, last is the value
\* of the last bucket of the window, null when that value is null.
C22_LastIsLastBucket ==
  Summarised =>
    \A i \in DOMAIN stats :
      NonNull(stats[i].key) # {} => stats[i].last = rows[Len(rows)][stats[i].key]

\* moisture has a value in an earlier bucket and null in the last one
C22_Witness ==
  /\ Summarised
  /\ Len(rows) >= 2
  /\ rows[Len(rows) - 1].moist_pct # <<>>
  /\ rows[Len(rows)].moist_pct = <<>>
  /\ stats[1].key = "moist_pct"
  /\ stats[1].min # <<>>
  /\ stats[1].last = <<>>

\* C23: a parameter without a non-null value in the window has min, max, avg
\* and last absent in stats, and its entry of graphData does not hold the
\* number 0 for min, max or avg.
C23_NoSampleNeverZero ==
  Summarised =>
    /\ \A i \in DOMAIN stats :
         NonNull(stats[i].key) = {} =>
           /\ stats[i].min = <<>> /\ stats[i].max = <<>>
           /\ stats[i].avg = <<>> /\ stats[i].last = <<>>
    /\ \A i \in DOMAIN graphData :
         NonNull(stats[i].key) = {} =>
           /\ graphData[i].min # 0
           /\ graphData[i].max # 0
           /\ graphData[i].avg # 0

\* ------------------------------------------- claims on the selection, continued
\* C24: while the device load is pending the selector is disabled and
\* handleCropChange has not run; once the load is done or the user has chosen,
\* only a call of handleCropChange changes the crop, so the persisted cur_crop
\* is applied at most once and never over a choice of the user.
C24_SelectorWaitsForDevice ==
  /\ [](devLoad = "pending" => (loading /\ calls = <<>>))
  /\ [][ ((devLoad = "done" \/ calls # <<>>) /\ calls' = calls) => crop' = crop ]_vars

\* the persisted crop was applied, then the user chose another one
C24_Witness ==
  /\ devLoad = "done"
  /\ dev # noDev
  /\ dev.cur_crop \notin {"null", "pechay"}
  /\ calls # <<>>
  /\ crop = Last(calls)
  /\ crop # dev.cur_crop

\* C25: once every persistence write has succeeded and none is in flight, the
\* cur_crop of the device row equals the active crop.
C25_PersistedEqualsActive ==
  ( /\ dev # noDev
    /\ devWrite # <<>>
    /\ \A i \in 1..Len(devWrite) : devWrite[i].st = "ok" ) =>
      device.cur_crop = crop

\* C26: while the history fetch of the current (crop, window) is in flight,
\* the loading flag of Analytics is true.
C26_LoadingWhileLatestPending == Last(histLoad).st = "pending" => aLoading

\* C28: the active crop of Live and the crop of Analytics are values of the
\* declared Crop type.
C28_CropOfDeclaredType == crop \in CropType /\ aCrop \in CropType

\* the loads of the history log that wrote rows and total
TableApplied == {i \in 1..Len(tableLoad) : tableLoad[i].st = "applied"}

\* rows and total are what the store answers to the query of load l
AnswerOf(l) ==
  \E tie \in {"up", "down"} :
    dbRows = Query(l, tie).data /\ total = <<Query(l, tie).count>>

\* C27: in the history log a load superseded by a change of search, sort, time
\* filter or row limit writes neither rows nor total nor loading when it
\* completes; the latest load is the one issued for the current filter values;
\* rows and total are the answer to the latest load that wrote (the latest load
\* itself once it has succeeded, the last one that succeeded before it when it
\* failed, the initial empty table when none has); and loading is false only
\* when the latest load has completed.
C27_SupersededLoadNeverWrites ==
  /\ [](/\ Last(tableLoad).search = search
        /\ Last(tableLoad).timeFilter = timeFilter
        /\ Last(tableLoad).rowLimit = rowLimit
        /\ Last(tableLoad).sortBy = sortBy
        /\ ~Last(tableLoad).cancelled
        /\ (~dbLoading => Last(tableLoad).st # "pending")
        /\ IF TableApplied = {}
             THEN dbRows = <<>> /\ total = <<>>
             ELSE AnswerOf(tableLoad[CHOOSE i \in TableApplied :
                                       \A j \in TableApplied : j <= i]))
  /\ [][\A i \in 1..Len(tableLoad) :
          (Resolves(tableLoad, i) /\ tableLoad[i].cancelled) =>
            UNCHANGED <<dbRows, total, dbLoading>>]_vars

\* the load of the mount was superseded by a search while pending and completed
\* without writing; the table shows the four okra buckets of the last 24 hours
C27_Witness ==
  /\ Len(tableLoad) = 2
  /\ tableLoad[1].st = "discarded"
  /\ tableLoad[1].search = ""
  /\ tableLoad[2].st = "applied"
  /\ search = "OK"
  /\ Len(dbRows) = 4
  /\ total = <<4>>
  /\ ~dbLoading

====
